---- MODULE Spec2Model ----
(***************************************************************************)
(* Document lifecycle of tritone: the in-memory DocumentMeta record, the   *)
(* blob artifacts (original.docx, preview.pdf, signed.pdf), the route      *)
(* handlers POST /api/upload, /api/field, /api/sign, /api/clear, and the   *)
(* page's document context (handleUploadClick, handleClearDocument).       *)
(*                                                                         *)
(* Numbers of a SignatureField are rationals with denominator Den: the     *)
(* integer v stands for v / Den, so page 1 is Den and xN = 0.5 is Den/2.   *)
(* The editor part is the preview component's pointer gestures and the     *)
(* temporary signature of the page.                                        *)
(***************************************************************************)
EXTENDS Integers, Sequences, FiniteSets, TLC

\* ------------------------------------------------------------------ bounds
MaxUploads == 2
MaxPages == 2
MaxGestures == 2
MaxFetches == 2
MaxPolls == 3
MaxInflight == 2

\* ------------------------------------------------------- nullable values
Null == <<>>
Some(v) == <<v>>

\* --------------------------------------------------------- fixed-point
Den == 1000
IsInteger(v) == v % Den = 0

\* ------------------------------------------------------------ lib/types
DocumentStatus == {"empty", "uploaded", "converted", "signed", "failed"}

DEFAULT_META ==
  [status |-> "empty", createdAt |-> Null, originalDocxPath |-> Null,
   previewPdfPath |-> Null, signedPdfPath |-> Null, signatureField |-> Null,
   lastError |-> Null]

\* ---------------------------------------------------------- lib/storage
PREVIEW_PDF_KEY == "active/preview.pdf"
SIGNED_PDF_KEY == "active/signed.pdf"

NoBlobs == [docx |-> Null, preview |-> Null, signed |-> Null]

\* readMeta returns a deep copy of metadataStore
readMeta(store) == store

\* writeMeta stores a deep copy of meta and returns it
writeMeta(meta) == meta

blobExists(arts, key) == arts[key] # Null

getBlobUrl(arts, key, url) == IF arts[key] # Null THEN Some(url) ELSE Null

\* saveOriginalDocx: head + del of the old blob, then put of the new one.
\* storage = "ok": the put succeeded; "failKeep": the request to the blob
\* store failed before the old blob was deleted; "failDel": after.
saveOriginalDocx(arts, id, storage) ==
  IF storage = "ok"
  THEN [ok |-> TRUE, arts |-> [arts EXCEPT !.docx = Some(id)], url |-> Some(id)]
  ELSE [ok |-> FALSE,
        arts |-> IF storage = "failDel" THEN [arts EXCEPT !.docx = Null] ELSE arts,
        url |-> Null]

\* ---------------------------------------------------- lib/pdf-converter
ConversionOutcomes ==
  {"ok", "INVALID_FILE_TYPE", "timeout", "CONVERSION_FAILED", "invalidPdf"}

parseServiceError(errorCode) ==
  IF errorCode = "INVALID_FILE_TYPE"
  THEN "Invalid document format. Only .docx files are supported."
  ELSE IF errorCode = "CONVERSION_FAILED"
  THEN "PDF conversion failed. The document may be corrupted or incompatible."
  ELSE "PDF conversion failed. Please check the document and try again."

\* variant: a successful conversion that reports no pdfPath
convertDocxToPdf_NoPath(arts, pdf, outcome) ==
  IF outcome = "ok"
  THEN [success |-> TRUE, pdfPath |-> Null, error |-> Null,
        arts |-> [arts EXCEPT !.preview = Some(pdf)]]
  ELSE [success |-> FALSE, pdfPath |-> Null,
        error |-> Some(parseServiceError(outcome)), arts |-> arts]

\* convertDocxToPdf: calls the conversion service and, when it answers with
\* a PDF, writes preview.pdf.  pdf = [id, pages, wellFormed] is the PDF the
\* service would return; only its magic bytes are checked before the write.
convertDocxToPdf(arts, pdf, outcome) ==
  IF outcome = "ok"
  THEN [success |-> TRUE, pdfPath |-> Some(PREVIEW_PDF_KEY), error |-> Null,
        arts |-> [arts EXCEPT !.preview = Some(pdf)]]
  ELSE [success |-> FALSE, pdfPath |-> Null,
        error |-> Some(IF outcome = "timeout"
                       THEN "PDF conversion timed out. The document may be too complex or large."
                       ELSE IF outcome = "invalidPdf"
                       THEN "Failed to save PDF: Invalid PDF data received from conversion service"
                       ELSE parseServiceError(outcome)),
        arts |-> arts]

\* ---------------------------------------------------------- lib/pdfStamp
\* stampSignatureOnPdf: "ok" or the message of the error it throws
stampSignatureOnPdf(pdf, dataUrl, field) ==
  IF ~pdf.wellFormed THEN "PDF stamping failed: Failed to parse PDF document"
  ELSE IF (field.page \div Den) - 1 < 0 \/ (field.page \div Den) - 1 >= pdf.pages
  THEN "PDF stamping failed: Invalid page number"
  ELSE IF dataUrl # "png"
  THEN "PDF stamping failed: Failed to embed signature image"
  ELSE "ok"

\* variant: the Y axis is not flipped
drawImageOptions_NoFlip(field, pageWidth, pageHeight) ==
  LET wPt == field.wN * pageWidth
      hPt == field.hN * pageHeight
      xPt == field.xN * pageWidth
      yPt == field.yN * pageHeight
  IN [x |-> xPt - wPt \div 2, y |-> yPt - hPt \div 2, width |-> wPt, height |-> hPt]

\* the options stampSignatureOnPdf passes to page.drawImage, for a page of
\* pageWidth x pageHeight points; the results are in 1/Den of a point
drawImageOptions(field, pageWidth, pageHeight) ==
  LET wPt == field.wN * pageWidth
      hPt == field.hN * pageHeight
      xPt == field.xN * pageWidth
      yPt == (Den - field.yN) * pageHeight
  IN [x |-> xPt - wPt \div 2, y |-> yPt - hPt \div 2, width |-> wPt, height |-> hPt]

\* ------------------------------------------------------------- responses
Response(code, error, store, arts) ==
  [code |-> code, error |-> error, store |-> store, arts |-> arts]


OrElse(x, d) == IF x = Null THEN d ELSE x

\* ------------------------------------------------- app/api/upload/route
MAX_FILE_SIZE == 5 * 1024 * 1024

VALID_MIME_TYPES ==
  {"application/vnd.openxmlformats-officedocument.wordprocessingml.document"}

toLowerCase(ext) == IF ext = ".DOCX" THEN ".docx" ELSE ext

\* the catch block of the upload route
UploadCatch(msg, store, arts) ==
  Response(500, msg,
           writeMeta([readMeta(store) EXCEPT !.status = "failed",
                                             !.lastError = Some(msg)]),
           arts)

\* variant: the upload is recorded as converted whatever the conversion said
UploadMeta_AlwaysConverted(conversionResult, savedPath, id) ==
  [status |-> "converted",
   createdAt |-> Some(id),
   originalDocxPath |-> savedPath,
   previewPdfPath |-> OrElse(conversionResult.pdfPath, Null),
   signedPdfPath |-> Null,
   signatureField |-> Null,
   lastError |-> conversionResult.error]

\* metaToWrite of the upload route
UploadMeta(conversionResult, savedPath, id) ==
  [status |-> IF conversionResult.success THEN "converted" ELSE "failed",
   createdAt |-> Some(id),
   originalDocxPath |-> savedPath,
   previewPdfPath |-> IF conversionResult.success
                      THEN OrElse(conversionResult.pdfPath, Null)
                      ELSE Null,
   signedPdfPath |-> Null,
   signatureField |-> Null,
   lastError |-> IF conversionResult.success
                 THEN Null
                 ELSE OrElse(conversionResult.error, Some("PDF conversion failed"))]

\* POST /api/upload.  req = [kind, ext, size, mime]; env = what the blob
\* store and the conversion service do for this request; id = the identity
\* of this upload (its timestamp and the URL of the blob it puts).
UploadPOST(req, env, store, arts, id) ==
  IF req.kind = "unparseable"
  THEN UploadCatch("Failed to parse body as FormData", store, arts)
  ELSE IF req.kind = "nofile"
  THEN Response(400, "No file provided", store, arts)
  ELSE IF toLowerCase(req.ext) # ".docx"
  THEN Response(400, "Only .docx files are allowed", store, arts)
  ELSE IF req.size > MAX_FILE_SIZE
  THEN Response(400, "File too large. Maximum size is 15MB", store, arts)
  ELSE IF req.mime \notin VALID_MIME_TYPES
  THEN Response(400, "Invalid file type", store, arts)
  ELSE
    LET saved == saveOriginalDocx(arts, id, env.storage) IN
    IF ~saved.ok
    THEN UploadCatch("Failed to save uploaded document", store, saved.arts)
    ELSE
      LET conversionResult ==
            convertDocxToPdf(saved.arts,
                             [id |-> id, pages |-> env.pages,
                              wellFormed |-> env.wellFormed],
                             env.conversion)
          metaToWrite == UploadMeta(conversionResult, saved.url, id)
      IN Response(200, "", writeMeta(metaToWrite), conversionResult.arts)

\* -------------------------------------------------- app/api/field/route
\* variant: a signed document still takes a field
FieldStateConflict_SignedToo(meta) == meta.status \notin {"converted", "signed"}

\* the status guard of the field route
FieldStateConflict(meta) == meta.status # "converted"

\* POST /api/field.  body = [kind, field]: kind "unparseable" (request.json
\* throws), "nonNumber" (a member is missing or not a number) or "numbers".
FieldPOST(body, store, arts) ==
  IF body.kind = "unparseable"
  THEN Response(500, "Unexpected end of JSON input", store, arts)
  ELSE IF body.kind = "nonNumber"
  THEN Response(400, "Invalid signature field data. All fields (page, xN, yN, wN, hN) are required.",
                store, arts)
  ELSE
    LET f == body.field IN
    IF f.xN < 0 \/ f.xN > Den \/ f.yN < 0 \/ f.yN > Den
       \/ f.wN <= 0 \/ f.wN > Den \/ f.hN <= 0 \/ f.hN > Den
    THEN Response(400, "Normalized coordinates must be between 0 and 1", store, arts)
    ELSE IF f.page < Den \/ ~IsInteger(f.page)
    THEN Response(400, "Page number must be a positive integer", store, arts)
    ELSE
      LET meta == readMeta(store) IN
      IF FieldStateConflict(meta)
      THEN Response(400, "Document must be converted before placing signature field",
                    store, arts)
      ELSE Response(200, "", writeMeta([meta EXCEPT !.signatureField = Some(f)]), arts)

\* --------------------------------------------------- app/api/sign/route
\* the outer catch block of the sign route
SignCatch(msg, store, arts) ==
  Response(500, msg,
           writeMeta([readMeta(store) EXCEPT !.status = "failed",
                                             !.lastError = Some(msg)]),
           arts)

\* variant: a failed document can be signed in place
SignStateConflict_FailedToo(meta) == meta.status \notin {"converted", "failed"}

\* variant: a signed document can be signed again
SignStateConflict_SignedToo(meta) == meta.status \notin {"converted", "signed"}

\* the status guard of the sign route
SignStateConflict(meta) == meta.status # "converted"

\* POST /api/sign.  body is the class of the request body: "unparseable",
\* "missing" (no signatureDataUrl string), "notPng" (no PNG data-URL prefix),
\* "pngMalformed" (the prefix, then bytes that are no PNG), "png".
SignPOST(body, store, arts) ==
  IF body = "unparseable"
  THEN SignCatch("Unexpected end of JSON input", store, arts)
  ELSE IF body = "missing"
  THEN Response(400, "signatureDataUrl is required", store, arts)
  ELSE IF body = "notPng"
  THEN Response(400, "signatureDataUrl must be a PNG data URL", store, arts)
  ELSE
    LET meta == readMeta(store) IN
    IF meta.previewPdfPath = Null
    THEN Response(400, "Preview PDF not found. Please upload and convert a document first.",
                  store, arts)
    ELSE IF meta.signatureField = Null
    THEN Response(400, "Signature field not placed. Please place signature field first.",
                  store, arts)
    ELSE IF SignStateConflict(meta)
    THEN Response(400, "Document must be in converted state to sign", store, arts)
    ELSE IF ~blobExists(arts, "preview")
    THEN Response(500, "Preview PDF file not found in storage", store, arts)
    ELSE
      LET stamped == stampSignatureOnPdf(arts.preview[1], body, meta.signatureField[1]) IN
      IF stamped # "ok"
      THEN Response(500, stamped, store, arts)
      ELSE
        LET arts2 == [arts EXCEPT !.signed = Some(arts.preview[1].id)]
            signedPdfUrl == getBlobUrl(arts2, "signed", SIGNED_PDF_KEY)
            metaToWrite == [meta EXCEPT !.status = "signed",
                                        !.signedPdfPath =
                                           OrElse(signedPdfUrl, Some(SIGNED_PDF_KEY))]
        IN Response(200, "", writeMeta(metaToWrite), arts2)

\* -------------------------------------------------- app/api/clear/route
\* variant: the metadata is reset only when every delete succeeded
clearActiveDocument_ResetIfAllDeleted(listOk, kept, store, arts) ==
  IF ~listOk
  THEN [ok |-> FALSE, store |-> store, arts |-> arts]
  ELSE [ok |-> TRUE, store |-> IF kept = {} THEN DEFAULT_META ELSE store,
        arts |-> [k \in DOMAIN arts |-> IF k \in kept THEN arts[k] ELSE Null]]

\* clearActiveDocument: list the blobs, delete each (a failed delete is
\* swallowed: kept is the set of blobs whose delete failed), reset the
\* metadata.  listOk = FALSE: list() throws and nothing is done.
clearActiveDocument(listOk, kept, store, arts) ==
  IF ~listOk
  THEN [ok |-> FALSE, store |-> store, arts |-> arts]
  ELSE [ok |-> TRUE, store |-> DEFAULT_META,
        arts |-> [k \in DOMAIN arts |-> IF k \in kept THEN arts[k] ELSE Null]]

\* POST /api/clear
ClearPOST(listOk, kept, store, arts) ==
  LET cleared == clearActiveDocument(listOk, kept, store, arts) IN
  IF cleared.ok
  THEN Response(200, "", readMeta(cleared.store), cleared.arts)
  ELSE Response(500, "Failed to clear document", cleared.store, cleared.arts)


\* ------------------------------------------- components/DocumentPreview
\* variant: xN, yN taken as the top-left corner of the rectangle
overlayStyle_CornerAnchored(position, pageWidth, pageHeight) ==
  [left |-> position.xN * pageWidth, top |-> position.yN * pageHeight,
   width |-> position.wN * pageWidth, height |-> position.hN * pageHeight]

\* components/SignatureImageOverlay: left, top, width and height of the
\* overlay on a page displayed pageWidth x pageHeight pixels, in 1/Den px
overlayStyle(position, pageWidth, pageHeight) ==
  [left |-> ((2 * position.xN - position.wN) * pageWidth) \div 2,
   top |-> ((2 * position.yN - position.hN) * pageHeight) \div 2,
   width |-> position.wN * pageWidth, height |-> position.hN * pageHeight]

\* a pixel length as a fraction of the page (deltaXPx / pageWidth)
Normalized(px, pageSize) == (px * Den) \div pageSize

Half(v) == v \div 2

minSize == Den \div 20

LeftHandles == {"top-left", "bottom-left"}
TopHandles == {"top-left", "top-right"}
ResizeHandles == {"top-left", "top-right", "bottom-left", "bottom-right"}

\* variant: the bottom-right handle shrinks the field when dragged outward
resizeCorner_BottomRightInverted(position, handle, deltaXN, deltaYN) ==
  IF handle = "top-left"
  THEN [position EXCEPT !.xN = @ + deltaXN, !.yN = @ + deltaYN,
                        !.wN = @ - deltaXN, !.hN = @ - deltaYN]
  ELSE IF handle = "top-right"
  THEN [position EXCEPT !.yN = @ + deltaYN, !.wN = @ + deltaXN, !.hN = @ - deltaYN]
  ELSE IF handle = "bottom-left"
  THEN [position EXCEPT !.xN = @ + deltaXN, !.wN = @ - deltaXN, !.hN = @ + deltaYN]
  ELSE IF handle = "bottom-right"
  THEN [position EXCEPT !.wN = @ - deltaXN, !.hN = @ - deltaYN]
  ELSE position

\* the switch over resizeHandle of handleMouseMove
resizeCorner(position, handle, deltaXN, deltaYN) ==
  IF handle = "top-left"
  THEN [position EXCEPT !.xN = @ + deltaXN, !.yN = @ + deltaYN,
                        !.wN = @ - deltaXN, !.hN = @ - deltaYN]
  ELSE IF handle = "top-right"
  THEN [position EXCEPT !.yN = @ + deltaYN, !.wN = @ + deltaXN, !.hN = @ - deltaYN]
  ELSE IF handle = "bottom-left"
  THEN [position EXCEPT !.xN = @ + deltaXN, !.wN = @ - deltaXN, !.hN = @ + deltaYN]
  ELSE IF handle = "bottom-right"
  THEN [position EXCEPT !.wN = @ + deltaXN, !.hN = @ + deltaYN]
  ELSE position

\* "Enforce minimum size"
enforceMinSize(p) ==
  [p EXCEPT !.wN = IF @ < minSize THEN minSize ELSE @,
            !.hN = IF @ < minSize THEN minSize ELSE @]

\* the two boundary tests of one axis, one after the other: c the centre,
\* s the size
enforceAxis(c, s) ==
  LET c1 == IF 2 * c - s < 0 THEN Half(s) ELSE c
  IN IF 2 * c1 + s > 2 * Den THEN Den - Half(s) ELSE c1

\* "Enforce boundaries (keep within page)"
enforceBoundaries(p) ==
  [p EXCEPT !.xN = enforceAxis(p.xN, p.wN), !.yN = enforceAxis(p.yN, p.hN)]

\* the resize branch of handleMouseMove
resizeMove(start, handle, deltaXPx, deltaYPx, pageWidth, pageHeight) ==
  enforceBoundaries(enforceMinSize(
    resizeCorner(start, handle, Normalized(deltaXPx, pageWidth),
                 Normalized(deltaYPx, pageHeight))))

\* the drag branch of handleMouseMove: the centre of the gesture's start
\* moved by the delta, kept inside with the size of the field now shown
dragMove(start, shown, deltaXPx, deltaYPx, pageWidth, pageHeight) ==
  [shown EXCEPT
     !.xN = enforceAxis(start.xN + Normalized(deltaXPx, pageWidth), shown.wN),
     !.yN = enforceAxis(start.yN + Normalized(deltaYPx, pageHeight), shown.hN)]

\* ------------------------------------------------------------------ inputs
DOCX_MIME == "application/vnd.openxmlformats-officedocument.wordprocessingml.document"

FileSizes == {MAX_FILE_SIZE, MAX_FILE_SIZE + 1}

Files ==
  [kind : {"file"}, ext : {".docx", ".DOCX", ".pdf"}, size : FileSizes,
   mime : {DOCX_MIME, "application/pdf"}]

\* "Upload DOCX files (max 15MB)": the limit the README states
README_MAX_FILE_SIZE == 15 * 1024 * 1024

\* .docx files of the accepted MIME type around the two limits
DocxFilesBySize ==
  [kind : {"file"}, ext : {".docx"},
   size : {MAX_FILE_SIZE, MAX_FILE_SIZE + 1, README_MAX_FILE_SIZE,
           README_MAX_FILE_SIZE + 1},
   mime : {DOCX_MIME}]

NoFile(kind) == [kind |-> kind, ext |-> "", size |-> 0, mime |-> ""]

UploadRequests == Files \cup {NoFile("unparseable"), NoFile("nofile")}

\* what the blob store and the conversion service do during one upload: the
\* conversion runs only after a successful save, and the PDF matters only
\* when the service returned one
NoPdfEnv(storage, conversion) ==
  [storage |-> storage, conversion |-> conversion, pages |-> 1, wellFormed |-> TRUE]

UploadEnvs ==
  {NoPdfEnv(st, "ok") : st \in {"failKeep", "failDel"}}
  \cup {NoPdfEnv("ok", c) : c \in ConversionOutcomes \ {"ok"}}
  \cup [storage : {"ok"}, conversion : {"ok"}, pages : 1..MaxPages,
        wellFormed : BOOLEAN]

\* a request rejected by validation reaches neither of them
Validated(req) ==
  /\ req.kind = "file"
  /\ toLowerCase(req.ext) = ".docx"
  /\ req.size <= MAX_FILE_SIZE
  /\ req.mime \in VALID_MIME_TYPES

EnvsFor(req) == IF Validated(req) THEN UploadEnvs ELSE {NoPdfEnv("ok", "ok")}

\* the outcomes of list() and of the deletes of one clear
ClearEnvs(arts) ==
  {[listOk |-> FALSE, kept |-> {}]}
  \cup [listOk : {TRUE}, kept : SUBSET {k \in DOMAIN arts : arts[k] # Null}]

\* a field inside the page, and the bodies that differ from it in one member
BaseField == [page |-> Den, xN |-> 500, yN |-> 500, wN |-> 280, hN |-> 100]

FieldNumbers ==
  {BaseField}
  \cup {[BaseField EXCEPT !.page = v] : v \in {0, Den + 500, (MaxPages + 1) * Den}}
  \cup {[BaseField EXCEPT !.xN = Den + 1], [BaseField EXCEPT !.yN = -1],
        [BaseField EXCEPT !.wN = 0], [BaseField EXCEPT !.hN = Den + 1],
        [BaseField EXCEPT !.xN = 0]}

FieldBodies ==
  [kind : {"numbers"}, field : FieldNumbers]
  \cup {[kind |-> "unparseable", field |-> BaseField],
        [kind |-> "nonNumber", field |-> BaseField]}

SignBodies == {"unparseable", "missing", "notPng", "pngMalformed", "png"}

\* ------------------------------------------------------------------- state
VARIABLES
  metadataStore,  \* lib/storage: the in-memory DocumentMeta
  blobs,          \* the blob store: what each key of active/ holds
  clientMeta,     \* DocumentContext: the page's DocumentMeta
  uploadSeq,      \* number of uploads that reached the blob store
  last,           \* the last request: operation, input class, response,
                  \* status before it
  temporarySignature, \* useTemporarySignature: the uncommitted signature
  modal,          \* useTemporarySignature: isModalOpen, modalMode, pendingCoords
  preview,        \* DocumentPreview: page size, gesture state, the local
                  \* copy of the temporary signature
  canvas,         \* the bounding rectangle of the rendered page canvas
  pointer,        \* the coordinates of the last pointer event
  gestures,       \* number of gestures started
  stamped,        \* pdfStamp: the last call of stampSignatureOnPdf, with
                  \* the image it drew
  pdfPreview,     \* usePdfPreview: the documentStatus prop, its state and refs
  fetches,        \* the runs of fetchPdf, in the order they started, each
                  \* with the AbortController it created
  polling,        \* the page of the asynchronous variant: its meta status,
                  \* its poll interval and the polls sent
  inflight        \* route handlers that have started and not yet answered

serverVars == <<metadataStore, blobs, clientMeta, uploadSeq>>

editorVars == <<temporarySignature, modal, preview, canvas, pointer, gestures>>

previewVars == <<pdfPreview, fetches>>

asyncVars == <<polling, inflight>>

vars == <<serverVars, last, editorVars, stamped, previewVars, asyncVars>>

Last(op, detail, r) ==
  [op |-> op, detail |-> detail, code |-> r.code, error |-> r.error,
   preStatus |-> metadataStore.status]

\* DocumentPreview after its first render
PreviewInit ==
  [pageWidth |-> 0, pageHeight |-> 0,
   isResizing |-> FALSE, resizeHandle |-> Null, resizeStart |-> Null,
   isDragging |-> FALSE, dragStart |-> Null,
   localTemporarySignature |-> Null]

\* useTemporarySignature after its first render
ModalInit == [isModalOpen |-> FALSE, modalMode |-> "place", pendingCoords |-> Null]

\* usePdfPreview after its mount with documentStatus empty
PdfPreviewInit ==
  [documentStatus |-> "empty", pdfBlobUrl |-> Null, isPdfLoading |-> FALSE,
   pdfError |-> Null, numPages |-> 0, pageNumber |-> 1, retryAttempt |-> 0,
   currentBlobUrlRef |-> Null, abortControllerRef |-> Null]

\* the page of the asynchronous variant after its first render
PollingInit == [meta |-> Null, interval |-> Null, intervals |-> 0, polls |-> <<>>]

Init ==
  /\ metadataStore = DEFAULT_META
  /\ blobs = NoBlobs
  /\ clientMeta = DEFAULT_META
  /\ uploadSeq = 0
  /\ last = [op |-> "init", detail |-> "", code |-> 0, error |-> "",
             preStatus |-> "empty"]
  /\ temporarySignature = Null
  /\ modal = ModalInit
  /\ preview = PreviewInit
  /\ canvas = Null
  /\ pointer = [x |-> 0, y |-> 0]
  /\ gestures = 0
  /\ stamped = Null
  /\ pdfPreview = PdfPreviewInit
  /\ fetches = <<>>
  /\ polling = PollingInit
  /\ inflight = <<>>

\* the input class of an upload: what the conversion service answered when
\* the request got that far, else how far the request got
UploadDetail(req, env) ==
  IF ~Validated(req) THEN req.kind
  ELSE IF env.storage # "ok" THEN "storageFailure"
  ELSE env.conversion

\* an upload consumed an identity when it reached saveOriginalDocx
Consumed(r) == r.error \in {"", "Failed to save uploaded document"}

\* --------------------------------------------------------- server requests
\* a request sent to POST /api/upload by any HTTP client
ApiUpload ==
  /\ uploadSeq < MaxUploads
  /\ \E req \in UploadRequests : \E env \in EnvsFor(req) :
       LET r == UploadPOST(req, env, metadataStore, blobs, uploadSeq + 1) IN
       /\ metadataStore' = r.store
       /\ blobs' = r.arts
       /\ uploadSeq' = IF Consumed(r) THEN uploadSeq + 1 ELSE uploadSeq
       /\ last' = Last("upload", UploadDetail(req, env), r)
       /\ UNCHANGED clientMeta
       /\ UNCHANGED <<editorVars, stamped, previewVars, asyncVars>>

ApiField ==
  \E body \in FieldBodies :
    LET r == FieldPOST(body, metadataStore, blobs) IN
    /\ metadataStore' = r.store
    /\ blobs' = r.arts
    /\ last' = Last("field", body.kind, r)
    /\ UNCHANGED <<clientMeta, uploadSeq>>
    /\ UNCHANGED <<editorVars, stamped, previewVars, asyncVars>>

ApiSign ==
  \E body \in SignBodies :
    LET r == SignPOST(body, metadataStore, blobs) IN
    /\ metadataStore' = r.store
    /\ blobs' = r.arts
    /\ last' = Last("sign", body, r)
    /\ UNCHANGED <<clientMeta, uploadSeq>>
    /\ UNCHANGED <<editorVars, stamped, previewVars, asyncVars>>

ApiClear ==
  \E env \in ClearEnvs(blobs) :
    LET r == ClearPOST(env.listOk, env.kept, metadataStore, blobs) IN
    /\ metadataStore' = r.store
    /\ blobs' = r.arts
    /\ last' = Last("clear", "", r)
    /\ UNCHANGED <<clientMeta, uploadSeq>>
    /\ UNCHANGED <<editorVars, stamped, previewVars, asyncVars>>

\* ---------------------------------------------------------------- app/page
\* files handleFileChange lets into uploadedFile: the name ends with ".docx"
ClientFiles == {f \in Files : f.ext = ".docx"}

\* handleUploadClick: POST /api/upload with uploadedFile, then updateMeta
handleUploadClick ==
  /\ uploadSeq < MaxUploads
  /\ \E req \in ClientFiles : \E env \in EnvsFor(req) :
       LET r == UploadPOST(req, env, metadataStore, blobs, uploadSeq + 1) IN
       /\ metadataStore' = r.store
       /\ blobs' = r.arts
       /\ uploadSeq' = IF Consumed(r) THEN uploadSeq + 1 ELSE uploadSeq
       /\ last' = Last("handleUploadClick", UploadDetail(req, env), r)
       /\ clientMeta' =
            IF r.code = 200
            THEN \* result.originalDocxUrl and result.previewPdfUrl: the
                 \* response carries {success, message, meta} only
                 [status |-> "converted", createdAt |-> Some(uploadSeq + 1),
                  originalDocxPath |-> Null, previewPdfPath |-> Null,
                  signedPdfPath |-> Null, signatureField |-> Null,
                  lastError |-> Null]
            ELSE [clientMeta EXCEPT !.status = "failed",
                                    !.lastError = Some(r.error)]
       /\ UNCHANGED <<editorVars, stamped, previewVars, asyncVars>>

\* handleClearDocument: POST /api/clear, then resetMeta
handleClearDocument ==
  \E env \in ClearEnvs(blobs) :
    LET r == ClearPOST(env.listOk, env.kept, metadataStore, blobs) IN
    /\ metadataStore' = r.store
    /\ blobs' = r.arts
    /\ last' = Last("handleClearDocument", "", r)
    /\ clientMeta' = IF r.code = 200 THEN DEFAULT_META ELSE clientMeta
    /\ temporarySignature' = IF r.code = 200 THEN Null ELSE temporarySignature
    /\ preview' = IF r.code = 200
                  THEN [preview EXCEPT !.localTemporarySignature = Null]
                  ELSE preview
    /\ UNCHANGED <<uploadSeq, modal, canvas, pointer, gestures, stamped, previewVars, asyncVars>>

\* ------------------------------------------------------------ the editor
\* sizes at which the page canvas is displayed, in pixels
PageSizes == {[width |-> 1000, height |-> 1000], [width |-> 500, height |-> 250]}

\* the page shown in the preview (pageNumber of usePdfPreview)
pageNumber == 1

\* where a click lands on a page of that size
ClickPoints(size) ==
  {[x |-> 0, y |-> Half(size.height)],
   [x |-> Half(size.width), y |-> Half(size.height)]}

\* where the pointer goes down, and by how much it has moved at a
\* pointer-move event
PointerDowns == {[x |-> 600, y |-> 300]}

PointerDeltas == {<<0, 0>>, <<50, 20>>, <<-50, -20>>, <<400, 200>>, <<-400, -200>>}

SignatureDataUrls == {"png"}

EditorLast(op) ==
  [op |-> op, detail |-> "", code |-> 0, error |-> "",
   preStatus |-> metadataStore.status]

\* the effect "Sync local state with prop" of DocumentPreview
SyncLocal(pv, signature) == [pv EXCEPT !.localTemporarySignature = signature]

\* the overlay and its handles are rendered
OverlayShown ==
  /\ preview.localTemporarySignature # Null
  /\ preview.localTemporarySignature[1].position.page = pageNumber * Den
  /\ preview.pageWidth # 0
  /\ preview.pageHeight # 0

NoGesture == ~preview.isResizing /\ ~preview.isDragging

\* react-pdf has rendered the page: the canvas has its displayed size and
\* handlePageLoadSuccess copies it
handlePageLoadSuccess ==
  /\ canvas = Null
  /\ \E size \in PageSizes :
       /\ canvas' = Some(size)
       /\ preview' = [preview EXCEPT !.pageWidth = size.width,
                                     !.pageHeight = size.height]
  /\ last' = EditorLast("handlePageLoadSuccess")
  /\ UNCHANGED <<previewVars, asyncVars, stamped, serverVars, temporarySignature, modal, pointer, gestures>>

\* handlePreviewClick, then openModalForPlacement with the coordinates
handlePreviewClick ==
  /\ canvas # Null
  /\ ~modal.isModalOpen
  /\ NoGesture
  /\ preview.localTemporarySignature = Null
  /\ \E e \in ClickPoints(canvas[1]) :
       LET pageWidthPx == canvas[1].width
           pageHeightPx == canvas[1].height
           coords == [xN |-> Normalized(e.x, pageWidthPx),
                      yN |-> Normalized(e.y, pageHeightPx),
                      pageWidth |-> pageWidthPx, pageHeight |-> pageHeightPx,
                      page |-> pageNumber * Den]
       IN /\ preview' = [preview EXCEPT !.pageWidth = pageWidthPx,
                                        !.pageHeight = pageHeightPx]
          /\ modal' = [isModalOpen |-> TRUE, modalMode |-> "place",
                       pendingCoords |-> Some(coords)]
          /\ pointer' = e
  /\ last' = EditorLast("handlePreviewClick")
  /\ UNCHANGED <<previewVars, asyncVars, stamped, serverVars, temporarySignature, canvas, gestures>>

\* placeSignature: the modal's onSave
placeSignature ==
  /\ modal.isModalOpen
  /\ \E dataUrl \in SignatureDataUrls :
       LET placed ==
             IF modal.modalMode = "place" /\ modal.pendingCoords # Null
             THEN Some([dataUrl |-> dataUrl,
                        position |-> [page |-> modal.pendingCoords[1].page,
                                      xN |-> modal.pendingCoords[1].xN,
                                      yN |-> modal.pendingCoords[1].yN,
                                      wN |-> (28 * Den) \div 100,
                                      hN |-> Den \div 10]])
             ELSE IF modal.modalMode = "redraw" /\ temporarySignature # Null
             THEN Some([dataUrl |-> dataUrl,
                        position |-> temporarySignature[1].position])
             ELSE temporarySignature
       IN /\ temporarySignature' = placed
          /\ preview' = SyncLocal(preview, placed)
  /\ modal' = [modal EXCEPT !.isModalOpen = FALSE]
  /\ last' = EditorLast("placeSignature")
  /\ UNCHANGED <<previewVars, asyncVars, stamped, serverVars, canvas, pointer, gestures>>

\* handleResizeStart: pointer-down on one of the four handles
handleResizeStart ==
  /\ OverlayShown
  /\ NoGesture
  /\ ~modal.isModalOpen
  /\ gestures < MaxGestures
  /\ \E handle \in ResizeHandles : \E e \in PointerDowns :
       /\ preview' = [preview EXCEPT
                        !.isResizing = TRUE,
                        !.resizeHandle = Some(handle),
                        !.resizeStart =
                           Some([x |-> e.x, y |-> e.y,
                                 signature |-> preview.localTemporarySignature[1]])]
       /\ pointer' = e
  /\ gestures' = gestures + 1
  /\ last' = EditorLast("handleResizeStart")
  /\ UNCHANGED <<previewVars, asyncVars, stamped, serverVars, temporarySignature, modal, canvas>>

\* handleDragStart: pointer-down on the overlay
handleDragStart ==
  /\ OverlayShown
  /\ NoGesture
  /\ ~modal.isModalOpen
  /\ gestures < MaxGestures
  /\ \E e \in PointerDowns :
       /\ preview' = [preview EXCEPT
                        !.isDragging = TRUE,
                        !.dragStart =
                           Some([x |-> e.x, y |-> e.y,
                                 signature |-> preview.localTemporarySignature[1]])]
       /\ pointer' = e
  /\ gestures' = gestures + 1
  /\ last' = EditorLast("handleDragStart")
  /\ UNCHANGED <<previewVars, asyncVars, stamped, serverVars, temporarySignature, modal, canvas>>

\* the pointer events that can follow the pointer-down of the gesture
PointerMoves ==
  LET down == IF preview.isResizing THEN preview.resizeStart[1]
              ELSE preview.dragStart[1]
  IN {[x |-> down.x + d[1], y |-> down.y + d[2]] : d \in PointerDeltas}

\* handleMouseMove during a gesture (outside a gesture it changes nothing)
handleMouseMove ==
  /\ ~NoGesture
  /\ preview.localTemporarySignature # Null
  /\ \E e \in PointerMoves :
       LET shown == preview.localTemporarySignature[1]
           resized ==
             IF preview.isResizing /\ preview.resizeStart # Null
                /\ preview.resizeHandle # Null
             THEN [shown EXCEPT !.position =
                     resizeMove(preview.resizeStart[1].signature.position,
                                preview.resizeHandle[1],
                                e.x - preview.resizeStart[1].x,
                                e.y - preview.resizeStart[1].y,
                                preview.pageWidth, preview.pageHeight)]
             ELSE shown
           dragged ==
             IF preview.isDragging /\ preview.dragStart # Null
             THEN [shown EXCEPT !.position =
                     dragMove(preview.dragStart[1].signature.position,
                              shown.position,
                              e.x - preview.dragStart[1].x,
                              e.y - preview.dragStart[1].y,
                              preview.pageWidth, preview.pageHeight)]
             ELSE resized
       IN /\ preview' = [preview EXCEPT !.localTemporarySignature = Some(dragged)]
          /\ pointer' = e
  /\ last' = EditorLast("handleMouseMove")
  /\ UNCHANGED <<previewVars, asyncVars, stamped, serverVars, temporarySignature, modal, canvas, gestures>>

\* handleMouseUp: the end of the gesture, onSignatureUpdate with the field
\* shown (updateSignaturePosition of the page)
handleMouseUp ==
  /\ ~NoGesture
  /\ preview.localTemporarySignature # Null
  /\ temporarySignature' = preview.localTemporarySignature
  /\ preview' = [preview EXCEPT
                   !.isResizing = FALSE,
                   !.resizeHandle = IF preview.isResizing THEN Null ELSE @,
                   !.resizeStart = IF preview.isResizing THEN Null ELSE @,
                   !.isDragging = FALSE,
                   !.dragStart = IF preview.isDragging THEN Null ELSE @]
  /\ last' = EditorLast("handleMouseUp")
  /\ UNCHANGED <<previewVars, asyncVars, stamped, serverVars, modal, canvas, pointer, gestures>>

\* the preview component and the temporary signature under the user's
\* clicks and pointer gestures
NextEditor ==
  \/ handlePageLoadSuccess
  \/ handlePreviewClick
  \/ placeSignature
  \/ handleResizeStart
  \/ handleDragStart
  \/ handleMouseMove
  \/ handleMouseUp

SpecEditor == Init /\ [][NextEditor]_vars

\* ------------------------------------------- the page's signature session
\* deleteSignature: the "Delete Signature" button
deleteSignature ==
  /\ temporarySignature # Null
  /\ NoGesture
  /\ temporarySignature' = Null
  /\ preview' = SyncLocal(preview, Null)
  /\ last' = EditorLast("deleteSignature")
  /\ UNCHANGED <<previewVars, asyncVars, stamped, serverVars, modal, canvas, pointer, gestures>>

\* handleFinalizeSignature of the page: finalizeSignature of the hook, which
\* the page obtains from useTemporarySignature() without a setMeta.  detail
\* is the list of the requests sent; error is what finalizeSignature throws.
handleFinalizeSignature ==
  /\ NoGesture
  /\ LET answer(sent, code, error, store, arts) ==
           /\ metadataStore' = store
           /\ blobs' = arts
           /\ last' = [op |-> "handleFinalizeSignature", detail |-> sent,
                       code |-> code, error |-> error,
                       preStatus |-> metadataStore.status]
     IN IF temporarySignature = Null
        THEN answer("none", 0, "", metadataStore, blobs)
        ELSE
          LET fieldResponse ==
                FieldPOST([kind |-> "numbers",
                           field |-> temporarySignature[1].position],
                          metadataStore, blobs)
          IN IF fieldResponse.code # 200
             THEN answer("field", fieldResponse.code, fieldResponse.error,
                         fieldResponse.store, fieldResponse.arts)
             ELSE
               LET signResponse ==
                     SignPOST(temporarySignature[1].dataUrl, fieldResponse.store,
                              fieldResponse.arts)
               IN IF signResponse.code # 200
                  THEN answer("field,sign", signResponse.code, signResponse.error,
                              signResponse.store, signResponse.arts)
                  ELSE \* setMeta(result.meta): setMeta is undefined, the
                       \* call throws and setTemporarySignature(null) is
                       \* not reached
                       answer("field,sign", 200, "setMeta is not a function",
                              signResponse.store, signResponse.arts)
  /\ UNCHANGED <<clientMeta, uploadSeq, editorVars, stamped, previewVars, asyncVars>>

\* the preview shows the PDF of a converted or signed document and
\* react-pdf renders its page
previewPageLoads ==
  /\ clientMeta.status \in {"converted", "signed"}
  /\ handlePageLoadSuccess

NextSession ==
  \/ handleUploadClick
  \/ handleClearDocument
  \/ previewPageLoads
  \/ handlePreviewClick
  \/ placeSignature
  \/ deleteSignature
  \/ handleFinalizeSignature

SpecSession == Init /\ [][NextSession]_vars

\* ------------------------------------------------------------ the stamper
\* page sizes in points: US Letter and A4 rounded
PdfPageSizes == {[width |-> 612, height |-> 792], [width |-> 595, height |-> 842]}

StampPdfs ==
  [pages : 1..MaxPages, wellFormed : BOOLEAN, size : PdfPageSizes]

StampFields ==
  [page : {Den, (MaxPages + 1) * Den}, xN : {140, Den \div 2, 860},
   yN : {50, Den \div 2, 950}, wN : {(28 * Den) \div 100, Den}, hN : {Den \div 10}]

\* one call of stampSignatureOnPdf on a PDF whose pages all have pdf.size
StampCall ==
  \E pdf \in StampPdfs : \E field \in StampFields :
    LET outcome == stampSignatureOnPdf(pdf, "png", field) IN
    /\ stamped' = Some([pdf |-> pdf, field |-> field, outcome |-> outcome,
                        image |-> IF outcome = "ok"
                                  THEN Some(drawImageOptions(field, pdf.size.width,
                                                             pdf.size.height))
                                  ELSE Null])
    /\ last' = EditorLast("stampSignatureOnPdf")
    /\ UNCHANGED <<serverVars, editorVars, previewVars, asyncVars>>

NextStamp == StampCall

SpecStamp == Init /\ [][NextStamp]_vars

\* ------------------------------------------------------ hooks/usePdfPreview
maxRetries == 10

\* "Exponential backoff": the wait after the failed attempt, in ms
delayMs(attempt) == 2 ^ (attempt - 1) * 1000

FetchStatuses == {"converted", "signed"}

\* the values of the documentStatus prop: the two that start a fetch and
\* one of those that reset the preview
PreviewStatuses == FetchStatuses \cup {"empty"}

\* the start of fetchPdfWithRetry in the run of fetchPdf for this status
NewFetch(status) ==
  [type |-> IF status = "signed" THEN "signed" ELSE "preview",
   attempt |-> 1, pc |-> "fetching", waitMs |-> 0, aborted |-> FALSE,
   result |-> "none"]

\* abortControllerRef.current?.signal.aborted
CurrentAborted(fs) ==
  pdfPreview.abortControllerRef # Null /\ fs[pdfPreview.abortControllerRef[1]].aborted

\* abortControllerRef.current.abort()
AbortCurrent(fs) ==
  IF pdfPreview.abortControllerRef = Null THEN fs
  ELSE [fs EXCEPT ![pdfPreview.abortControllerRef[1]].aborted = TRUE]

\* the documentStatus prop changes: the cleanup of the previous effect,
\* then fetchPdf up to its first await
documentStatusChanges ==
  \E status \in PreviewStatuses \ {pdfPreview.documentStatus} :
    /\ status \in FetchStatuses => Len(fetches) < MaxFetches
    /\ LET cleaned == AbortCurrent(fetches)
           \* the cleanup has revoked the URL and emptied currentBlobUrlRef
           id == Len(fetches) + 1
       IN IF status \in FetchStatuses
          THEN /\ fetches' = Append(cleaned, NewFetch(status))
               /\ pdfPreview' = [pdfPreview EXCEPT
                                   !.documentStatus = status,
                                   !.currentBlobUrlRef = Null,
                                   !.abortControllerRef = Some(id),
                                   !.isPdfLoading = TRUE,
                                   !.pdfError = Null,
                                   !.retryAttempt = 0]
          ELSE /\ fetches' = cleaned
               /\ pdfPreview' = [pdfPreview EXCEPT
                                   !.documentStatus = status,
                                   !.currentBlobUrlRef = Null,
                                   !.pdfError = Null,
                                   !.pageNumber = 1,
                                   !.numPages = 0,
                                   !.retryAttempt = 0]
    /\ last' = EditorLast("documentStatusChanges")
    /\ UNCHANGED <<serverVars, editorVars, stamped, asyncVars>>

\* an attempt of fetchPdfWithRetry fails (the request throws or the
\* response is not ok): onRetry and the wait, or after the last attempt the
\* catch block of fetchPdf
fetchAttemptFails ==
  \E i \in DOMAIN fetches :
    /\ fetches[i].pc = "fetching"
    /\ IF fetches[i].attempt < maxRetries
       THEN /\ fetches' = [fetches EXCEPT ![i].pc = "waiting",
                                          ![i].waitMs = delayMs(fetches[i].attempt)]
            /\ pdfPreview' = [pdfPreview EXCEPT !.retryAttempt = fetches[i].attempt]
       ELSE /\ fetches' = [fetches EXCEPT ![i].pc = "done", ![i].result = "error"]
            /\ pdfPreview' =
                 IF CurrentAborted(fetches)
                 THEN [pdfPreview EXCEPT !.isPdfLoading = FALSE]
                 ELSE [pdfPreview EXCEPT !.pdfError = Some(i),
                                         !.retryAttempt = 0,
                                         !.isPdfLoading = FALSE]
    /\ last' = EditorLast("fetchAttemptFails")
    /\ UNCHANGED <<serverVars, editorVars, stamped, asyncVars>>

\* the wait of fetchPdfWithRetry is over: the next attempt starts
delayElapses ==
  \E i \in DOMAIN fetches :
    /\ fetches[i].pc = "waiting"
    /\ fetches' = [fetches EXCEPT ![i].pc = "fetching",
                                  ![i].attempt = @ + 1]
    /\ last' = EditorLast("delayElapses")
    /\ UNCHANGED <<serverVars, editorVars, stamped, asyncVars, pdfPreview>>

\* an attempt of fetchPdfWithRetry gets the blob: fetchPdfWithRetry returns
\* and fetchPdf goes on after its await
fetchAttemptSucceeds ==
  \E i \in DOMAIN fetches :
    /\ fetches[i].pc = "fetching"
    /\ fetches' = [fetches EXCEPT ![i].pc = "done", ![i].result = "blob"]
    /\ pdfPreview' =
         IF CurrentAborted(fetches)
         THEN [pdfPreview EXCEPT !.isPdfLoading = FALSE]
         ELSE [pdfPreview EXCEPT !.currentBlobUrlRef = Some(i),
                                 !.pdfBlobUrl = Some(i),
                                 !.retryAttempt = 0,
                                 !.isPdfLoading = FALSE]
    /\ last' = EditorLast("fetchAttemptSucceeds")
    /\ UNCHANGED <<serverVars, editorVars, stamped, asyncVars>>

NextPreview ==
  \/ documentStatusChanges
  \/ fetchAttemptFails
  \/ delayElapses
  \/ fetchAttemptSucceeds

SpecPreview == Init /\ [][NextPreview]_vars

\* ------------------------------------- the page of the asynchronous variant
\* "Poll every 2 seconds"
POLL_INTERVAL_MS == 2000

\* meta?.status
MetaStatus(meta) == IF meta = Null THEN "none" ELSE meta[1].status

\* the effect "Poll for conversion status when document is uploaded", run
\* when meta?.status changes from the status of pl to that of meta: the
\* cleanup of the previous run, then setInterval if the status is uploaded
PollEffect(pl, meta) ==
  IF MetaStatus(meta) = MetaStatus(pl.meta)
  THEN [pl EXCEPT !.meta = meta]
  ELSE IF MetaStatus(meta) = "uploaded"
  THEN [pl EXCEPT !.meta = meta,
                  !.interval = Some([id |-> pl.intervals + 1, ticks |-> 0]),
                  !.intervals = @ + 1]
  ELSE [pl EXCEPT !.meta = meta, !.interval = Null]

\* clearInterval(interval) in the callback of the interval with that id
ClearInterval(pl, id) ==
  IF pl.interval # Null /\ pl.interval[1].id = id
  THEN [pl EXCEPT !.interval = Null]
  ELSE pl

\* meta of the upload route of the asynchronous variant
AsyncUploadMeta(savedPath, id) ==
  [status |-> "uploaded", createdAt |-> Some(id), originalDocxPath |-> savedPath,
   previewPdfPath |-> Null, signedPdfPath |-> Null, signatureField |-> Null,
   lastError |-> Null]

\* handleUploadClick of the asynchronous variant: POST /api/upload saves the
\* file and answers with status uploaded, then setMeta(result.meta)
asyncUploadClick ==
  /\ uploadSeq < MaxUploads
  /\ \E storage \in {"ok", "failKeep"} :
       LET id == uploadSeq + 1
           saved == saveOriginalDocx(blobs, id, storage)
           r == IF saved.ok
                THEN Response(200, "", writeMeta(AsyncUploadMeta(saved.url, id)),
                              saved.arts)
                ELSE UploadCatch("Failed to save uploaded document", metadataStore,
                                 saved.arts)
       IN /\ metadataStore' = r.store
          /\ blobs' = r.arts
          /\ uploadSeq' = id
          /\ last' = Last("asyncUploadClick", storage, r)
          /\ polling' = IF r.code = 200 THEN PollEffect(polling, Some(r.store))
                        ELSE polling
  /\ UNCHANGED <<clientMeta, editorVars, stamped, previewVars, inflight>>

\* the conversion of the uploaded document ends: the stored status leaves
\* uploaded
conversionEnds ==
  /\ metadataStore.status = "uploaded"
  /\ \E outcome \in {"ok", "CONVERSION_FAILED"} :
       LET conversionResult ==
             convertDocxToPdf(blobs, [id |-> uploadSeq, pages |-> 1,
                                      wellFormed |-> TRUE], outcome)
       IN /\ blobs' = conversionResult.arts
          /\ metadataStore' =
               writeMeta([metadataStore EXCEPT
                            !.status = IF conversionResult.success
                                       THEN "converted" ELSE "failed",
                            !.previewPdfPath = conversionResult.pdfPath,
                            !.lastError = conversionResult.error])
          /\ last' = [EditorLast("conversionEnds") EXCEPT !.detail = outcome]
  /\ UNCHANGED <<clientMeta, uploadSeq, editorVars, stamped, previewVars, asyncVars>>

\* the interval fires: the callback sends GET /api/meta
pollTick ==
  /\ polling.interval # Null
  /\ Len(polling.polls) < MaxPolls
  /\ polling' =
       [polling EXCEPT
          !.interval = Some([polling.interval[1] EXCEPT !.ticks = @ + 1]),
          !.polls = Append(@, [interval |-> polling.interval[1].id,
                               atMs |-> (polling.interval[1].ticks + 1)
                                          * POLL_INTERVAL_MS,
                               pc |-> "sent", data |-> Null])]
  /\ last' = EditorLast("pollTick")
  /\ UNCHANGED <<serverVars, editorVars, stamped, previewVars, inflight>>

\* GET /api/meta: the route reads the stored meta for one of the polls sent
MetaGET ==
  \E i \in DOMAIN polling.polls :
    /\ polling.polls[i].pc = "sent"
    /\ polling' = [polling EXCEPT !.polls[i].pc = "answered",
                                  !.polls[i].data = Some(readMeta(metadataStore))]
    /\ last' = EditorLast("MetaGET")
    /\ UNCHANGED <<serverVars, editorVars, stamped, previewVars, inflight>>

\* the answer of a poll arrives, whichever poll it is: setMeta(data), and
\* clearInterval when the status is not uploaded
pollResponse ==
  \E i \in DOMAIN polling.polls :
    /\ polling.polls[i].pc = "answered"
    /\ LET data == polling.polls[i].data
           done == [polling EXCEPT !.polls[i].pc = "done"]
           cleared == IF MetaStatus(data) # "uploaded"
                      THEN ClearInterval(done, polling.polls[i].interval)
                      ELSE done
       IN polling' = PollEffect(cleared, data)
    /\ last' = EditorLast("pollResponse")
    /\ UNCHANGED <<serverVars, editorVars, stamped, previewVars, inflight>>

\* the request of a poll fails: "Failed to poll meta" is logged
pollFails ==
  \E i \in DOMAIN polling.polls :
    /\ polling.polls[i].pc \in {"sent", "answered"}
    /\ polling' = [polling EXCEPT !.polls[i].pc = "failed"]
    /\ last' = EditorLast("pollFails")
    /\ UNCHANGED <<serverVars, editorVars, stamped, previewVars, inflight>>

NextPoll ==
  \/ asyncUploadClick
  \/ conversionEnds
  \/ pollTick
  \/ MetaGET
  \/ pollResponse
  \/ pollFails

SpecPoll == Init /\ [][NextPoll]_vars

\* ------------------------------------- the page of the field-based variant
\* The page keeps the field in its signatureField state and writes it to
\* the stored DocumentMeta with POST /api/field.  Its gesture handlers are
\* those of the preview component; signatureField is held here in the
\* position of preview.localTemporarySignature.

\* handlePreviewClick of the field-based page for a click at e: a field of
\* the fixed size around the click is posted; on a 200 answer the page
\* takes the meta and the field
fieldPlacedAt(e, store) ==
  LET pageWidthPx == canvas[1].width
      pageHeightPx == canvas[1].height
      newField == [page |-> pageNumber * Den,
                   xN |-> Normalized(e.x, pageWidthPx),
                   yN |-> Normalized(e.y, pageHeightPx),
                   wN |-> (28 * Den) \div 100, hN |-> Den \div 10]
  IN [response |-> FieldPOST([kind |-> "numbers", field |-> newField],
                             store, blobs),
      signatureField |-> Some([dataUrl |-> "", position |-> newField]),
      pageWidth |-> pageWidthPx, pageHeight |-> pageHeightPx]

\* a document has been uploaded before the page is opened: POST /api/upload
\* with a one-page .docx of the largest size let in, stored and converted
uploadedBeforeMount ==
  /\ uploadSeq < MaxUploads
  /\ polling.meta = Null
  /\ \E req \in {f \in DocxFilesBySize : f.size = MAX_FILE_SIZE} :
     \E env \in {e \in EnvsFor(req) : /\ e.storage = "ok" /\ e.conversion = "ok"
                                      /\ e.pages = 1 /\ e.wellFormed} :
       LET r == UploadPOST(req, env, metadataStore, blobs, uploadSeq + 1) IN
       /\ metadataStore' = r.store
       /\ blobs' = r.arts
       /\ uploadSeq' = uploadSeq + 1
       /\ last' = Last("upload", "", r)
  /\ UNCHANGED <<clientMeta, editorVars, stamped, previewVars, asyncVars>>

\* the effect "Load meta on mount": GET /api/meta, then setMeta(data)
fieldPageMounts ==
  /\ polling.meta = Null
  /\ polling' = PollEffect(polling, Some(readMeta(metadataStore)))
  /\ last' = EditorLast("fieldPageMounts")
  /\ UNCHANGED <<serverVars, editorVars, stamped, previewVars, inflight>>

\* the preview of a converted or signed document is rendered: the canvas
\* of the page exists
fieldPageRenders ==
  /\ MetaStatus(polling.meta) \in {"converted", "signed"}
  /\ canvas = Null
  /\ \E size \in PageSizes : canvas' = Some(size)
  /\ last' = EditorLast("fieldPageRenders")
  /\ UNCHANGED <<serverVars, temporarySignature, modal, preview, pointer, gestures, stamped, previewVars, asyncVars>>

\* a click on the preview outside a gesture
fieldHandlePreviewClick ==
  /\ NoGesture
  /\ MetaStatus(polling.meta) = "converted"
  /\ canvas # Null
  /\ \E e \in ClickPoints(canvas[1]) :
       LET placed == fieldPlacedAt(e, metadataStore) IN
       /\ metadataStore' = placed.response.store
       /\ last' = Last("fieldHandlePreviewClick", "", placed.response)
       /\ IF placed.response.code = 200
          THEN /\ polling' = PollEffect(polling, Some(placed.response.store))
               /\ preview' = [preview EXCEPT
                                !.localTemporarySignature = placed.signatureField,
                                !.pageWidth = placed.pageWidth,
                                !.pageHeight = placed.pageHeight]
          ELSE UNCHANGED <<polling, preview>>
       /\ pointer' = e
  /\ UNCHANGED <<blobs, clientMeta, uploadSeq, temporarySignature, modal, canvas, gestures, stamped, previewVars, inflight>>

\* the pointer goes up inside the preview during a gesture: handleMouseUp
\* posts the field shown, and the click event that the browser dispatches
\* after the mouseup reaches handlePreviewClick, since stopPropagation was
\* called for the mousedown only
fieldHandleMouseUp ==
  /\ ~NoGesture
  /\ preview.localTemporarySignature # Null
  /\ canvas # Null
  /\ LET saved == FieldPOST([kind |-> "numbers",
                             field |-> preview.localTemporarySignature[1].position],
                            metadataStore, blobs)
         clicked == MetaStatus(polling.meta) = "converted"
         placed == fieldPlacedAt(pointer, saved.store)
         ended == [preview EXCEPT
                     !.isResizing = FALSE,
                     !.resizeHandle = IF preview.isResizing THEN Null ELSE @,
                     !.resizeStart = IF preview.isResizing THEN Null ELSE @,
                     !.isDragging = FALSE,
                     !.dragStart = IF preview.isDragging THEN Null ELSE @]
     IN /\ metadataStore' = IF clicked THEN placed.response.store ELSE saved.store
        /\ polling' = IF clicked /\ placed.response.code = 200
                       THEN PollEffect(polling, Some(placed.response.store))
                       ELSE IF saved.code = 200
                       THEN PollEffect(polling, Some(saved.store))
                       ELSE polling
        /\ preview' = IF clicked /\ placed.response.code = 200
                      THEN [ended EXCEPT
                              !.localTemporarySignature = placed.signatureField,
                              !.pageWidth = placed.pageWidth,
                              !.pageHeight = placed.pageHeight]
                      ELSE ended
        /\ last' = [Last("fieldHandleMouseUp", "", saved) EXCEPT
                      !.detail = IF ~clicked THEN "saved"
                                 ELSE IF placed.response.code = 200
                                 THEN "saved,placed"
                                 ELSE "saved,rejected"]
  /\ UNCHANGED <<blobs, clientMeta, uploadSeq, temporarySignature, modal, canvas, pointer, gestures, stamped, previewVars, inflight>>

\* the field-based page, opened on a document that any client has uploaded,
\* under clicks and gestures on the field
NextFieldEditor ==
  \/ uploadedBeforeMount
  \/ fieldPageMounts
  \/ fieldPageRenders
  \/ fieldHandlePreviewClick
  \/ handleResizeStart
  \/ handleDragStart
  \/ handleMouseMove
  \/ fieldHandleMouseUp

SpecFieldEditor == Init /\ [][NextFieldEditor]_vars

\* --------------------------------------- the route handlers step by step
\* a handler that has started: its route, the identity of its upload, the
\* await it is at, and what it holds in its local variables
Run(op, id, pc, local) == [op |-> op, id |-> id, pc |-> pc, local |-> local]

\* the handler at position i has answered
Answered(i) == SubSeq(inflight, 1, i - 1) \o SubSeq(inflight, i + 1, Len(inflight))

\* POST /api/upload with a file that passes validation
uploadArrives ==
  /\ uploadSeq < MaxUploads
  /\ Len(inflight) < MaxInflight
  /\ uploadSeq' = uploadSeq + 1
  /\ inflight' = Append(inflight, Run("upload", uploadSeq + 1, "del", Null))
  /\ last' = EditorLast("uploadArrives")
  /\ UNCHANGED <<metadataStore, blobs, clientMeta, editorVars, stamped, previewVars, polling>>

\* saveOriginalDocx: head, then del of the blob found
uploadDeletesOld ==
  \E i \in DOMAIN inflight :
    /\ inflight[i].op = "upload" /\ inflight[i].pc = "del"
    /\ blobs' = [blobs EXCEPT !.docx = Null]
    /\ inflight' = [inflight EXCEPT ![i].pc = "put"]
    /\ last' = EditorLast("uploadDeletesOld")
    /\ UNCHANGED <<metadataStore, clientMeta, uploadSeq, editorVars, stamped, previewVars, polling>>

\* saveOriginalDocx: put; when it fails, the catch block of the route
uploadPutsDocx ==
  \E i \in DOMAIN inflight : \E storage \in {"ok", "failKeep"} :
    /\ inflight[i].op = "upload" /\ inflight[i].pc = "put"
    /\ LET saved == saveOriginalDocx(blobs, inflight[i].id, storage)
           r == UploadCatch("Failed to save uploaded document", metadataStore,
                            saved.arts)
       IN /\ blobs' = saved.arts
          /\ metadataStore' = IF saved.ok THEN metadataStore ELSE r.store
          /\ inflight' = IF saved.ok THEN [inflight EXCEPT ![i].pc = "convert"]
                         ELSE Answered(i)
          /\ last' = IF saved.ok THEN EditorLast("uploadPutsDocx")
                     ELSE Last("upload", "storageFailure", r)
    /\ UNCHANGED <<clientMeta, uploadSeq, editorVars, stamped, previewVars, polling>>

\* convertDocxToPdf with the buffer of this upload: the service answers and
\* preview.pdf is written
uploadConverts ==
  \E i \in DOMAIN inflight : \E outcome \in {"ok", "CONVERSION_FAILED"} :
    /\ inflight[i].op = "upload" /\ inflight[i].pc = "convert"
    /\ LET conversionResult ==
             convertDocxToPdf(blobs, [id |-> inflight[i].id, pages |-> 1,
                                      wellFormed |-> TRUE], outcome)
       IN /\ blobs' = conversionResult.arts
          /\ inflight' = [inflight EXCEPT ![i].pc = "meta",
                                          ![i].local = Some(conversionResult)]
    /\ last' = [EditorLast("uploadConverts") EXCEPT !.detail = outcome]
    /\ UNCHANGED <<metadataStore, clientMeta, uploadSeq, editorVars, stamped, previewVars, polling>>

\* writeMeta(metaToWrite) and the answer of the upload route; savedPath is
\* the URL of the blob this upload has put
uploadWritesMeta ==
  \E i \in DOMAIN inflight :
    /\ inflight[i].op = "upload" /\ inflight[i].pc = "meta"
    /\ LET metaToWrite == UploadMeta(inflight[i].local[1], Some(inflight[i].id),
                                     inflight[i].id)
           r == Response(200, "", writeMeta(metaToWrite), blobs)
       IN /\ metadataStore' = r.store
          /\ last' = Last("upload", IF inflight[i].local[1].success THEN "ok"
                                    ELSE "CONVERSION_FAILED", r)
    /\ inflight' = Answered(i)
    /\ UNCHANGED <<blobs, clientMeta, uploadSeq, editorVars, stamped, previewVars, polling>>

\* POST /api/sign with a PNG: readMeta and the three tests of the meta
signArrives ==
  /\ Len(inflight) < MaxInflight
  /\ LET meta == readMeta(metadataStore)
         r == SignPOST("png", metadataStore, blobs)
     IN IF meta.previewPdfPath = Null \/ meta.signatureField = Null
           \/ SignStateConflict(meta)
        THEN /\ last' = Last("sign", "png", r)
             /\ UNCHANGED inflight
        ELSE /\ last' = EditorLast("signArrives")
             /\ inflight' = Append(inflight, Run("sign", 0, "stamp", Some(meta)))
  /\ UNCHANGED <<serverVars, editorVars, stamped, previewVars, polling>>

\* blobExists and stampSignatureOnPdf, which writes signed.pdf
signStamps ==
  \E i \in DOMAIN inflight :
    /\ inflight[i].op = "sign" /\ inflight[i].pc = "stamp"
    /\ LET meta == inflight[i].local[1]
           outcome == IF ~blobExists(blobs, "preview")
                      THEN "Preview PDF file not found in storage"
                      ELSE stampSignatureOnPdf(blobs.preview[1], "png",
                                               meta.signatureField[1])
       IN IF outcome = "ok"
          THEN /\ blobs' = [blobs EXCEPT !.signed = Some(blobs.preview[1].id)]
               /\ inflight' = [inflight EXCEPT ![i].pc = "meta"]
               /\ last' = EditorLast("signStamps")
          ELSE /\ blobs' = blobs
               /\ inflight' = Answered(i)
               /\ last' = Last("sign", "png",
                               Response(500, outcome, metadataStore, blobs))
    /\ UNCHANGED <<metadataStore, clientMeta, uploadSeq, editorVars, stamped, previewVars, polling>>

\* getBlobUrl, writeMeta({...meta, status: signed}) with the meta read at
\* the start, and the answer of the sign route
signWritesMeta ==
  \E i \in DOMAIN inflight :
    /\ inflight[i].op = "sign" /\ inflight[i].pc = "meta"
    /\ LET signedPdfUrl == getBlobUrl(blobs, "signed", SIGNED_PDF_KEY)
           metaToWrite == [inflight[i].local[1] EXCEPT
                             !.status = "signed",
                             !.signedPdfPath =
                                OrElse(signedPdfUrl, Some(SIGNED_PDF_KEY))]
           r == Response(200, "", writeMeta(metaToWrite), blobs)
       IN /\ metadataStore' = r.store
          /\ last' = Last("sign", "png", r)
    /\ inflight' = Answered(i)
    /\ UNCHANGED <<blobs, clientMeta, uploadSeq, editorVars, stamped, previewVars, polling>>

\* POST /api/clear: clearActiveDocument lists the blobs of active/
clearArrives ==
  /\ Len(inflight) < MaxInflight
  /\ \E listOk \in BOOLEAN :
       IF listOk
       THEN /\ inflight' = Append(inflight,
                                  Run("clear", 0, "delete",
                                      {k \in DOMAIN blobs : blobs[k] # Null}))
            /\ last' = EditorLast("clearArrives")
       ELSE /\ UNCHANGED inflight
            /\ last' = Last("clear", "", ClearPOST(FALSE, {}, metadataStore, blobs))
  /\ UNCHANGED <<serverVars, editorVars, stamped, previewVars, polling>>

\* one del of clearActiveDocument ends; a failed del is swallowed
clearDeletes ==
  \E i \in DOMAIN inflight :
    /\ inflight[i].op = "clear" /\ inflight[i].pc = "delete"
    /\ \E k \in inflight[i].local : \E deleted \in BOOLEAN :
         /\ blobs' = IF deleted THEN [blobs EXCEPT ![k] = Null] ELSE blobs
         /\ inflight' = [inflight EXCEPT ![i].local = @ \ {k}]
    /\ last' = EditorLast("clearDeletes")
    /\ UNCHANGED <<metadataStore, clientMeta, uploadSeq, editorVars, stamped, previewVars, polling>>

\* every del has ended: the metadata is reset and the clear route answers
clearResets ==
  \E i \in DOMAIN inflight :
    /\ inflight[i].op = "clear" /\ inflight[i].pc = "delete"
    /\ inflight[i].local = {}
    /\ metadataStore' = DEFAULT_META
    /\ inflight' = Answered(i)
    /\ last' = Last("clear", "", Response(200, "", DEFAULT_META, blobs))
    /\ UNCHANGED <<blobs, clientMeta, uploadSeq, editorVars, stamped, previewVars, polling>>

\* upload requests alone, interleaved at their awaits
NextUploads ==
  \/ uploadArrives
  \/ uploadDeletesOld
  \/ uploadPutsDocx
  \/ uploadConverts
  \/ uploadWritesMeta

SpecUploads == Init /\ [][NextUploads]_vars

\* the handlers interleaved at their awaits, with the field route
NextSteps ==
  \/ uploadArrives
  \/ uploadDeletesOld
  \/ uploadPutsDocx
  \/ uploadConverts
  \/ uploadWritesMeta
  \/ ApiField
  \/ signArrives
  \/ signStamps
  \/ signWritesMeta
  \/ clearArrives
  \/ clearDeletes
  \/ clearResets

SpecSteps == Init /\ [][NextSteps]_vars

\* the server under the requests of any HTTP client
Next ==
  \/ ApiUpload
  \/ ApiField
  \/ ApiSign
  \/ ApiClear

Spec == Init /\ [][Next]_vars

\* the page: its upload and clear handlers, with the field, sign and clear
\* requests the server may receive meanwhile
NextPage ==
  \/ handleUploadClick
  \/ handleClearDocument
  \/ ApiField
  \/ ApiSign
  \/ ApiClear

SpecPage == Init /\ [][NextPage]_vars

\* ------------------------------------------------------ classes of answers
UploadOps == {"upload", "handleUploadClick"}

ClearOps == {"clear", "handleClearDocument"}

\* answers to bad input shape, type or range
ValidationErrors ==
  {"No file provided", "Only .docx files are allowed",
   "File too large. Maximum size is 15MB", "Invalid file type",
   "Invalid signature field data. All fields (page, xN, yN, wN, hN) are required.",
   "Normalized coordinates must be between 0 and 1",
   "Page number must be a positive integer",
   "signatureDataUrl is required", "signatureDataUrl must be a PNG data URL"}

\* answers to a request that is illegal in the current status
StateConflictErrors ==
  {"Document must be converted before placing signature field",
   "Preview PDF not found. Please upload and convert a document first.",
   "Signature field not placed. Please place signature field first.",
   "Document must be in converted state to sign"}

StampErrors ==
  {"PDF stamping failed: Failed to parse PDF document",
   "PDF stamping failed: Invalid page number",
   "PDF stamping failed: Failed to embed signature image"}

\* the request was rejected for its input or for the current status
Rejected(l) ==
  /\ l.op \in UploadOps \cup {"field", "sign"}
  /\ \/ l.detail = "unparseable"
     \/ l.error \in ValidationErrors \cup StateConflictErrors

\* the invariants of a SignatureField: page a positive integer, the centre
\* and the size within 0..1, the rectangle within the unit square
SignatureFieldInvariant(f) ==
  /\ f.page >= Den /\ IsInteger(f.page)
  /\ 0 <= f.xN /\ f.xN <= Den
  /\ 0 <= f.yN /\ f.yN <= Den
  /\ 0 < f.wN /\ f.wN <= Den
  /\ 0 < f.hN /\ f.hN <= Den
  /\ 2 * f.xN - f.wN >= 0 /\ 2 * f.xN + f.wN <= 2 * Den
  /\ 2 * f.yN - f.hN >= 0 /\ 2 * f.yN + f.hN <= 2 * Den

\* the rectangle of the field lies within the unit square
RectWithinUnitSquare(f) ==
  /\ 2 * f.xN - f.wN >= 0 /\ 2 * f.xN + f.wN <= 2 * Den
  /\ 2 * f.yN - f.hN >= 0 /\ 2 * f.yN + f.hN <= 2 * Den

\* the rectangle touches no edge of the page
RectStrictlyInside(f) ==
  /\ 2 * f.xN - f.wN > 0 /\ 2 * f.xN + f.wN < 2 * Den
  /\ 2 * f.yN - f.hN > 0 /\ 2 * f.yN + f.hN < 2 * Den

\* the pointer-down record of the gesture in progress
GestureDown ==
  IF preview.isResizing THEN preview.resizeStart[1] ELSE preview.dragStart[1]

\* ------------------------------------------------------------------ claims

\* C1: a place-or-update-field request received while the stored status is
\* not converted is answered with an explicit error and leaves the stored
\* DocumentMeta exactly as it was.
C1_FieldOutsideConvertedRejected ==
  [][(last'.op = "field" /\ metadataStore.status # "converted")
       => (/\ last'.code >= 400
           /\ last'.error # ""
           /\ metadataStore' = metadataStore)]_vars

C1_Witness ==
  /\ last.op = "field"
  /\ last.detail = "numbers"
  /\ last.preStatus = "signed"
  /\ last.error = "Document must be converted before placing signature field"
  /\ metadataStore.status = "signed"

\* C2: a sign request received while status is converted and no signature
\* field is stored is rejected with an error, and afterwards the status is
\* still converted and signedPdfPath is still null.
C2_SignWithoutFieldKeepsConverted ==
  [][(/\ last'.op = "sign"
      /\ metadataStore.status = "converted"
      /\ metadataStore.signatureField = Null)
       => (/\ last'.code >= 400
           /\ metadataStore'.status = "converted"
           /\ metadataStore'.signedPdfPath = Null)]_vars

\* C3: in every reachable state signedPdfPath is non-null if and only if
\* status is signed, on the server and in the page's document context.
C3_SignedRefIffSigned ==
  /\ (metadataStore.signedPdfPath # Null) <=> (metadataStore.status = "signed")
  /\ (clientMeta.signedPdfPath # Null) <=> (clientMeta.status = "signed")

\* C4: in every reachable state signatureField is non-null only if status is
\* converted or signed.
C4_FieldOnlyWhenConvertedOrSigned ==
  /\ metadataStore.signatureField # Null
       => metadataStore.status \in {"converted", "signed"}
  /\ clientMeta.signatureField # Null
       => clientMeta.status \in {"converted", "signed"}

\* C5: in every reachable state, whenever the stored status is converted or
\* signed, previewPdfPath is non-null.
C5_PreviewRefWhenConvertedOrSigned ==
  metadataStore.status \in {"converted", "signed"}
    => metadataStore.previewPdfPath # Null

C5_Witness ==
  /\ last.op = "sign"
  /\ last.code = 200
  /\ metadataStore.status = "signed"
  /\ metadataStore.previewPdfPath = Some(PREVIEW_PDF_KEY)

\* C6: after a clear that completed, whatever the state before it, the
\* stored DocumentMeta has status empty and all other members null; so has
\* the page's DocumentMeta after handleClearDocument.
C6_ClearResetsEverything ==
  /\ (last.op \in ClearOps /\ last.code = 200)
       => /\ metadataStore.status = "empty"
          /\ metadataStore.originalDocxPath = Null
          /\ metadataStore.previewPdfPath = Null
          /\ metadataStore.signedPdfPath = Null
          /\ metadataStore.signatureField = Null
          /\ metadataStore.createdAt = Null
          /\ metadataStore.lastError = Null
  /\ (last.op = "handleClearDocument" /\ last.code = 200)
       => clientMeta = DEFAULT_META

C6_Witness ==
  /\ last.op = "handleClearDocument"
  /\ last.code = 200
  /\ last.preStatus = "signed"
  /\ blobs.signed # Null
  /\ metadataStore = DEFAULT_META

\* C7: when stamping fails during a sign request, the document goes to
\* status failed with lastError set, and the stored refs and signatureField
\* are kept.
C7_StampFailureDrivesFailed ==
  [][(last'.op = "sign" /\ last'.error \in StampErrors)
       => (/\ metadataStore'.status = "failed"
           /\ metadataStore'.lastError # Null
           /\ metadataStore'.originalDocxPath = metadataStore.originalDocxPath
           /\ metadataStore'.previewPdfPath = metadataStore.previewPdfPath
           /\ metadataStore'.signedPdfPath = metadataStore.signedPdfPath
           /\ metadataStore'.signatureField = metadataStore.signatureField)]_vars

\* C8: when the conversion fails for an upload that passed validation, the
\* stored status is failed with a non-null lastError and a null
\* previewPdfPath, and only a later upload whose conversion succeeds makes
\* the status converted.
C8_ConversionFailureDrivesFailed ==
  /\ [](( /\ last.op \in UploadOps
          /\ last.detail \in ConversionOutcomes \ {"ok"})
          => (/\ metadataStore.status = "failed"
              /\ metadataStore.lastError # Null
              /\ metadataStore.previewPdfPath = Null))
  /\ [][(metadataStore.status # "converted" /\ metadataStore'.status = "converted")
          => (last'.op \in UploadOps /\ last'.detail = "ok")]_vars

C8_Witness ==
  /\ last.op = "upload"
  /\ last.detail = "timeout"
  /\ last.preStatus = "converted"
  /\ metadataStore.status = "failed"
  /\ metadataStore.lastError # Null

\* C9: an upload, field or sign request that is rejected for its input
\* (missing file, extension, MIME type, size, unparseable body, non-PNG
\* signature, field shape or range) or for being illegal in the current
\* status leaves the DocumentMeta of the server and of the page as they were.
C9_RejectionLeavesMetaUnchanged ==
  [][Rejected(last')
       => (metadataStore' = metadataStore /\ clientMeta' = clientMeta)]_vars

\* C10: the status becomes signed only by a sign request that found status
\* converted, a signatureField and a previewPdfPath, and whose stamping
\* succeeded.
C10_SignedOnlyBySuccessfulSign ==
  [][(metadataStore.status # "signed" /\ metadataStore'.status = "signed")
       => (/\ last'.op = "sign"
           /\ last'.code = 200
           /\ metadataStore.status = "converted"
           /\ metadataStore.signatureField # Null
           /\ metadataStore.previewPdfPath # Null
           /\ blobs.preview # Null
           /\ stampSignatureOnPdf(blobs.preview[1], last'.detail,
                                  metadataStore.signatureField[1]) = "ok"
           /\ blobs'.signed = Some(blobs.preview[1].id))]_vars

C10_Witness ==
  /\ last.op = "sign"
  /\ last.code = 200
  /\ last.preStatus = "converted"
  /\ metadataStore.status = "signed"
  /\ metadataStore.signatureField # Null
  /\ blobs.signed # Null

\* C11: once the stored status is failed, a place-or-update-field or sign
\* request changes neither the status nor any other member of the
\* DocumentMeta, and the status leaves failed only by an upload or a clear.
C11_FailedFrozenUnderFieldAndSign ==
  [][/\ (metadataStore.status = "failed" /\ last'.op \in {"field", "sign"})
          => metadataStore' = metadataStore
     /\ (metadataStore.status = "failed" /\ metadataStore'.status # "failed")
          => last'.op \in UploadOps \cup ClearOps]_vars

\* C12: after an upload that ends with status converted, whatever the state
\* before it, signatureField, signedPdfPath and lastError are null and
\* createdAt, originalDocxPath and previewPdfPath are those of the new
\* upload, in the stored DocumentMeta and in the page's.
C12_ConvertedUploadDiscardsPrior ==
  /\ (last.op \in UploadOps /\ last.code = 200 /\ metadataStore.status = "converted")
       => /\ metadataStore.signatureField = Null
          /\ metadataStore.signedPdfPath = Null
          /\ metadataStore.lastError = Null
          /\ metadataStore.createdAt = Some(uploadSeq)
          /\ metadataStore.originalDocxPath = Some(uploadSeq)
          /\ blobs.docx = Some(uploadSeq)
          /\ metadataStore.previewPdfPath = Some(PREVIEW_PDF_KEY)
          /\ blobs.preview # Null
          /\ blobs.preview[1].id = uploadSeq
  /\ (last.op = "handleUploadClick" /\ last.code = 200 /\ clientMeta.status = "converted")
       => /\ clientMeta.signatureField = Null
          /\ clientMeta.signedPdfPath = Null
          /\ clientMeta.lastError = Null
          /\ clientMeta.createdAt = Some(uploadSeq)
          /\ clientMeta.originalDocxPath = Some(uploadSeq)
          /\ clientMeta.previewPdfPath = Some(PREVIEW_PDF_KEY)

\* C13: every SignatureField that the field route accepts and stores
\* satisfies the SignatureField invariants (page a positive integer, centre
\* and size within 0..1, rectangle within the unit square); a field that
\* violates one of them is not stored.
C13_StoredFieldSatisfiesInvariants ==
  metadataStore.signatureField # Null
    => SignatureFieldInvariant(metadataStore.signatureField[1])

\* C14: for a gesture whose start field satisfies the SignatureField
\* invariants, the field shown after each resize or drag move has its whole
\* rectangle inside the unit square and wN >= 0.05, hN >= 0.05.
C14_MovesKeepFieldInside ==
  [][(last'.op = "handleMouseMove"
      /\ SignatureFieldInvariant(GestureDown.signature.position))
       => LET f == preview'.localTemporarySignature[1].position
          IN /\ RectWithinUnitSquare(f)
             /\ f.wN >= minSize
             /\ f.hN >= minSize]_vars

\* C15: every field created by click placement has its rectangle
\* [xN-wN/2, xN+wN/2] x [yN-hN/2, yN+hN/2] within the unit square.
C15_ClickPlacementInside ==
  (last.op = "placeSignature" /\ temporarySignature # Null)
    => RectWithinUnitSquare(temporarySignature[1].position)

\* C16: a drag move with zero pointer delta shows a field equal to the
\* field at the start of the gesture, whatever field the gesture started
\* from.
C16_ZeroDragIsIdentity ==
  [][(/\ last'.op = "handleMouseMove"
      /\ preview.isDragging
      /\ pointer'.x = preview.dragStart[1].x
      /\ pointer'.y = preview.dragStart[1].y)
       => preview'.localTemporarySignature[1].position
            = preview.dragStart[1].signature.position]_vars

\* C17: in a resize move where neither the minimum-size clamp nor the
\* boundary clamp applies, wN and hN change by exactly the normalized
\* pointer delta, growing for an outward and shrinking for an inward drag,
\* xN stays for the two right handles and yN for the two bottom handles.
C17_UnclampedResizeFollowsPointer ==
  [][(last'.op = "handleMouseMove" /\ preview.isResizing)
       => LET start == preview.resizeStart[1].signature.position
              handle == preview.resizeHandle[1]
              f == preview'.localTemporarySignature[1].position
              \* pointer delta over the page size: dx / W = nx / Den
              outwardX == (IF handle \in LeftHandles THEN -1 ELSE 1)
                            * (pointer'.x - preview.resizeStart[1].x)
              outwardY == (IF handle \in TopHandles THEN -1 ELSE 1)
                            * (pointer'.y - preview.resizeStart[1].y)
              unclamped ==
                /\ start.wN * preview.pageWidth + outwardX * Den
                     >= minSize * preview.pageWidth
                /\ start.hN * preview.pageHeight + outwardY * Den
                     >= minSize * preview.pageHeight
                /\ RectStrictlyInside(f)
          IN unclamped
               => /\ (f.wN - start.wN) * preview.pageWidth = outwardX * Den
                  /\ (f.hN - start.hN) * preview.pageHeight = outwardY * Den
                  /\ handle \notin LeftHandles => f.xN = start.xN
                  /\ handle \notin TopHandles => f.yN = start.yN
                  /\ f.page = start.page]_vars

C17_Witness ==
  /\ last.op = "handleMouseMove"
  /\ preview.isResizing
  /\ preview.resizeHandle = Some("bottom-right")
  /\ preview.pageWidth = 1000 /\ preview.pageHeight = 1000
  /\ pointer.x - preview.resizeStart[1].x = 50
  /\ pointer.y - preview.resizeStart[1].y = 20
  /\ preview.resizeStart[1].signature.position = BaseField
  /\ preview.localTemporarySignature[1].position
       = [BaseField EXCEPT !.wN = @ + (5 * Den) \div 100,
                           !.hN = @ + (2 * Den) \div 100]

\* C18: for a field whose page is within the PDF (one that parses),
\* stamping draws the image with width wN*W and height hN*H at
\* drawX = xN*W - wN*W/2 and
\* drawY = (1 - yN)*H - hN*H/2, W x H being the page size in points.
C18_StampGeometry ==
  (/\ stamped # Null
   /\ stamped[1].pdf.wellFormed
   /\ stamped[1].field.page \div Den \in 1..stamped[1].pdf.pages)
    => LET f == stamped[1].field
           W == stamped[1].pdf.size.width
           H == stamped[1].pdf.size.height
       IN /\ stamped[1].image # Null
          /\ stamped[1].image[1].width = f.wN * W
          /\ stamped[1].image[1].height = f.hN * H
          /\ 2 * stamped[1].image[1].x = 2 * f.xN * W - f.wN * W
          /\ 2 * stamped[1].image[1].y = 2 * Den * H - 2 * f.yN * H - f.hN * H

\* 612 x 792 pt, {1, 0.5, 0.5, 0.28, 0.10}: 220.32, 356.4, 171.36, 79.2
C18_Witness ==
  /\ stamped # Null
  /\ stamped[1].pdf.size = [width |-> 612, height |-> 792]
  /\ stamped[1].field = BaseField
  /\ stamped[1].image
       = Some([x |-> (22032 * Den) \div 100, y |-> (3564 * Den) \div 10,
               width |-> (17136 * Den) \div 100, height |-> (792 * Den) \div 10])

\* C19: the result of a fetch that was superseded by a change of the
\* document status is never applied to pdfBlobUrl and pdfError, and once
\* every fetch has completed they are those of the fetch started for the
\* latest status.
C19_StaleFetchNeverApplied ==
  /\ [][\A i \in DOMAIN fetches :
          (fetches[i].aborted /\ fetches[i].pc # "done" /\ fetches'[i].pc = "done")
            => /\ pdfPreview'.pdfBlobUrl = pdfPreview.pdfBlobUrl
               /\ pdfPreview'.pdfError = pdfPreview.pdfError]_vars
  /\ []((/\ pdfPreview.documentStatus \in FetchStatuses
          /\ \A i \in DOMAIN fetches : fetches[i].pc = "done")
          => LET latest == Len(fetches)
             IN IF fetches[latest].result = "blob"
                THEN pdfPreview.pdfBlobUrl = Some(latest) /\ pdfPreview.pdfError = Null
                ELSE pdfPreview.pdfError = Some(latest))

\* C20: the retry loop makes at most maxRetries attempts and stops at the
\* first successful response; the wait after the k-th failed attempt is
\* 1 s * 2^(k-1) and never exceeds 16 s.
C20_BoundedBackoff ==
  \A i \in DOMAIN fetches :
    /\ fetches[i].attempt \in 1..maxRetries
    /\ fetches[i].result = "blob" => fetches[i].pc = "done"
    /\ fetches[i].pc = "waiting"
         => /\ fetches[i].waitMs = 1000 * 2 ^ (fetches[i].attempt - 1)
            /\ fetches[i].waitMs <= 16000

\* C21: a poll request is sent only while the page's status is uploaded,
\* 2 s after the previous one; once the page's status is no longer uploaded,
\* no answer of a poll still in flight makes it uploaded again.
C21_PollingStopsAfterUploaded ==
  [][/\ Len(polling'.polls) > Len(polling.polls)
          => /\ MetaStatus(polling.meta) = "uploaded"
             /\ polling'.polls[Len(polling'.polls)].atMs
                  = polling.interval[1].ticks * POLL_INTERVAL_MS + POLL_INTERVAL_MS
     /\ (last'.op = "pollResponse" /\ MetaStatus(polling.meta) # "uploaded")
          => MetaStatus(polling'.meta) # "uploaded"]_vars

\* C25: in every state the upload route rejects a .docx file of the
\* accepted MIME type for its size exactly when the file is larger than
\* 15 MB, the limit of the README and of the message.
C25_SizeLimitIs15MB ==
  \A req \in DocxFilesBySize :
    LET r == UploadPOST(req, NoPdfEnv("ok", "ok"), metadataStore, blobs,
                        uploadSeq + 1)
    IN (r.error = "File too large. Maximum size is 15MB")
         <=> (req.size > README_MAX_FILE_SIZE)

\* C27: while the stored status is signed, every field request and every
\* sign request is answered with an error and leaves signatureField,
\* signedPdfPath, previewPdfPath and the signed artifact as they were; these
\* three members change only by an upload or a clear.
C27_SignedIsReadOnly ==
  [][/\ (metadataStore.status = "signed" /\ last'.op \in {"field", "sign"})
          => /\ last'.code >= 400
             /\ last'.error # ""
             /\ metadataStore'.signatureField = metadataStore.signatureField
             /\ metadataStore'.signedPdfPath = metadataStore.signedPdfPath
             /\ metadataStore'.previewPdfPath = metadataStore.previewPdfPath
             /\ blobs' = blobs
     /\ (/\ metadataStore.status = "signed"
         /\ \/ metadataStore'.signatureField # metadataStore.signatureField
            \/ metadataStore'.signedPdfPath # metadataStore.signedPdfPath
            \/ metadataStore'.previewPdfPath # metadataStore.previewPdfPath)
          => last'.op \in UploadOps \cup ClearOps]_vars

C27_Witness ==
  /\ last.op = "sign"
  /\ last.detail = "png"
  /\ last.preStatus = "signed"
  /\ last.error = "Document must be in converted state to sign"
  /\ metadataStore.status = "signed"
  /\ metadataStore.signedPdfPath # Null
  /\ blobs.signed # Null

\* C29: in a resize move where no clamp applies, the corner diagonally
\* opposite the dragged handle stays where it was at the start of the
\* gesture, and the dragged corner moves by exactly the normalized pointer
\* delta, for each of the four handles.  Edges are doubled: 2*xN - wN is
\* twice the left edge.
C29_ResizeKeepsOppositeCorner ==
  [][(last'.op = "handleMouseMove" /\ preview.isResizing)
       => LET start == preview.resizeStart[1].signature.position
              handle == preview.resizeHandle[1]
              f == preview'.localTemporarySignature[1].position
              dx == pointer'.x - preview.resizeStart[1].x
              dy == pointer'.y - preview.resizeStart[1].y
              sx == IF handle \in LeftHandles THEN -1 ELSE 1
              sy == IF handle \in TopHandles THEN -1 ELSE 1
              \* twice the edge on the side of the handle, and opposite it
              draggedX(p) == 2 * p.xN + sx * p.wN
              draggedY(p) == 2 * p.yN + sy * p.hN
              oppositeX(p) == 2 * p.xN - sx * p.wN
              oppositeY(p) == 2 * p.yN - sy * p.hN
              unclamped ==
                /\ start.wN * preview.pageWidth + sx * dx * Den
                     >= minSize * preview.pageWidth
                /\ start.hN * preview.pageHeight + sy * dy * Den
                     >= minSize * preview.pageHeight
                /\ RectStrictlyInside(f)
          IN unclamped
               => /\ oppositeX(f) = oppositeX(start)
                  /\ oppositeY(f) = oppositeY(start)
                  /\ (draggedX(f) - draggedX(start)) * preview.pageWidth
                       = 2 * dx * Den
                  /\ (draggedY(f) - draggedY(start)) * preview.pageHeight
                       = 2 * dy * Den]_vars

\* C30: for every stamped field and every displayed page size, the
\* stamped rectangle and the overlay rectangle are the same fractions of
\* their pages: left edge, width, height, and the top edge measured from the
\* top of the page (the PDF's y runs upward); a field within the unit
\* square is stamped within the PDF page.
C30_StampMatchesOverlay ==
  (stamped # Null /\ stamped[1].outcome = "ok")
    => LET f == stamped[1].field
           Wp == stamped[1].pdf.size.width
           Hp == stamped[1].pdf.size.height
           image == stamped[1].image[1]
           \* the top edge of the stamped rectangle below the top of the page
           imageTop == Hp * Den - (image.y + image.height)
       IN /\ \A shown \in PageSizes :
               LET overlay == overlayStyle(f, shown.width, shown.height)
               IN /\ overlay.left * Wp = image.x * shown.width
                  /\ overlay.width * Wp = image.width * shown.width
                  /\ overlay.height * Hp = image.height * shown.height
                  /\ overlay.top * Hp = imageTop * shown.height
          /\ 2 * imageTop = (2 * f.yN - f.hN) * Hp
          /\ RectWithinUnitSquare(f)
               => /\ image.x >= 0 /\ image.x + image.width <= Wp * Den
                  /\ image.y >= 0 /\ image.y + image.height <= Hp * Den

\* a field touching the left and bottom edges is stamped at the origin
C30_Witness ==
  /\ stamped # Null
  /\ stamped[1].outcome = "ok"
  /\ stamped[1].pdf.size = [width |-> 595, height |-> 842]
  /\ stamped[1].field.xN = 140 /\ stamped[1].field.yN = 950
  /\ stamped[1].field.wN = 280
  /\ RectWithinUnitSquare(stamped[1].field)
  /\ stamped[1].image[1].x = 0 /\ stamped[1].image[1].y = 0

\* C23: there is no temporary signature after deleteSignature, after a
\* finalize that signed the document, after a clear that succeeded and
\* after an upload that replaced the document; so no temporary signature
\* made on one document is present on a later one.
C23_TemporarySignatureDiscarded ==
  /\ last.op = "deleteSignature" => temporarySignature = Null
  /\ (last.op = "handleFinalizeSignature" /\ last.code = 200
      /\ last.detail = "field,sign")
       => temporarySignature = Null
  /\ (last.op = "handleClearDocument" /\ last.code = 200)
       => temporarySignature = Null
  /\ (last.op = "handleUploadClick" /\ last.code = 200
      /\ metadataStore.status = "converted")
       => temporarySignature = Null

\* C28: finalizeSignature sends nothing without a temporary signature; it
\* sends the sign request only after the field route has stored the position
\* of the temporary signature; when the sign request succeeds it clears the
\* temporary signature and gives the page the signed DocumentMeta, and only
\* then; when a request fails the temporary signature stays and the error
\* reaches the caller.
C28_FinalizeOrder ==
  [][last'.op = "handleFinalizeSignature"
       => LET signed == last'.detail = "field,sign" /\ last'.code = 200
          IN /\ temporarySignature = Null
                  => /\ last'.detail = "none"
                     /\ metadataStore' = metadataStore /\ blobs' = blobs
             /\ last'.detail = "field,sign"
                  => /\ temporarySignature # Null
                     /\ metadataStore'.signatureField
                          = Some(temporarySignature[1].position)
             /\ (temporarySignature' # temporarySignature \/ clientMeta' # clientMeta)
                  => signed
             /\ (temporarySignature # Null /\ ~signed)
                  => /\ temporarySignature' = temporarySignature
                     /\ last'.code >= 400
                     /\ last'.error # ""
             /\ signed
                  => /\ temporarySignature' = Null
                     /\ clientMeta' = metadataStore'
                     /\ metadataStore'.status = "signed"
                     /\ last'.error = ""]_vars

\* C24: at every point, between the steps of an upload, a sign or a clear
\* as well as after them, every ref of the stored DocumentMeta points to an
\* artifact that exists: converted implies original.docx and preview.pdf
\* exist, signed implies signed.pdf exists.
C24_RefsPointToArtifacts ==
  /\ metadataStore.status = "converted"
       => blobExists(blobs, "docx") /\ blobExists(blobs, "preview")
  /\ metadataStore.status = "signed" => blobExists(blobs, "signed")
  /\ metadataStore.originalDocxPath # Null => blobExists(blobs, "docx")
  /\ metadataStore.previewPdfPath # Null => blobExists(blobs, "preview")
  /\ metadataStore.signedPdfPath # Null => blobExists(blobs, "signed")

\* C26: when every upload has answered and the stored status is converted,
\* the DocumentMeta, original.docx and preview.pdf are those of one and the
\* same upload, also when two uploads ran interleaved.
C26_InterleavedUploadsConsistent ==
  (/\ \A i \in DOMAIN inflight : inflight[i].op # "upload"
   /\ metadataStore.status = "converted")
    => \E id \in 1..MaxUploads :
         /\ metadataStore.createdAt = Some(id)
         /\ metadataStore.originalDocxPath = Some(id)
         /\ blobs.docx = Some(id)
         /\ blobs.preview # Null
         /\ blobs.preview[1].id = id

\* C22: during a drag or resize gesture the pointer-move events change
\* only the field kept by the preview, and the shared record is written at
\* pointer-up with the field last shown: the page's temporary signature in
\* the main variant, the signatureField of the stored DocumentMeta in the
\* field-based variant.
C22_GestureWritesOnceAtPointerUp ==
  [][/\ last'.op = "handleMouseMove"
          => /\ temporarySignature' = temporarySignature
             /\ metadataStore' = metadataStore
     /\ last'.op = "handleMouseUp"
          => temporarySignature' = preview.localTemporarySignature
     /\ last'.op = "fieldHandleMouseUp"
          => metadataStore'.signatureField =
               Some(preview.localTemporarySignature[1].position)]_vars

====
